---- MODULE Spec2Model ----
(***************************************************************************)
(* Model of BinauralBeatsGenerator (src/script.js): the playback state     *)
(* machine, the live retune of the audio graph, the elapsed timer and the  *)
(* wake lock.                                                              *)
(*                                                                         *)
(* Units.  Every frequency (slider value, oscillator frequency) counts     *)
(* halves of a hertz, so that "beatFreq / 2" is exact on whole-hertz       *)
(* slider values: Hz(400) is 400 Hz.  A gain counts hundredths, so that    *)
(* "volume / 100" is exact on whole-percent volumes: gain 100 is 1.0.      *)
(* The engine clock (audioContext.currentTime) counts whole seconds.       *)
(***************************************************************************)
EXTENDS Integers, Sequences, FiniteSets, TLC

VARIABLES
    audioContext,    \* this.audioContext: NULL or the index of a context in contexts
    contexts,        \* every AudioContext created so far, by index: its state
                     \* ("running", "suspended"; "resuming" when it is suspended
                     \* and a resume() called outside play() is not settled yet;
                     \* "dropped" once it is unreferenced)
    leftOscillator,  \* this.leftOscillator: NULL or the index of an oscillator
    rightOscillator, \* this.rightOscillator
    gainNode,        \* this.gainNode: NULL or the index of a master gain
    oscillators,     \* every OscillatorNode created so far, by index: its frequency
                     \* (NULL once it is stopped), whether it was started, stopped
    gains,           \* every master GainNode created so far, by index: its gain
                     \* (NULL once it is unreferenced and its sources are stopped)
    isPlaying,       \* this.isPlaying
    startTime,       \* this.startTime: NULL or an engine-clock time
    timerInterval,   \* this.timerInterval: NULL or the id of an interval
    intervals,       \* the ids of the setInterval tasks that are not cleared
    nextInterval,    \* the id the next setInterval returns
    timerText,       \* textContent of #timer
    wakeLock,        \* this.wakeLock: NULL or the index of a sentinel in locks
    locks,           \* every WakeLockSentinel granted so far: "held" or "released"
    lockRequests,    \* navigator.wakeLock.request() promises not yet settled
    hasWakeLock,     \* 'wakeLock' in navigator
    hasStereoPanner, \* the platform's AudioContext has createStereoPanner
    isIOS,           \* this.isIOS
    backgroundMode,  \* this.backgroundMode
    iosWarnings,     \* the #ios-warning elements in the document
    waveformStatus,  \* text of the #waveform-status element
    autoPlays,       \* the 100 ms timeouts of quick-preset clicks that have not fired
    resumeRetries,   \* the 100 ms timeouts of the statechange listener that have not fired
    carrierFreq,     \* value of the #carrier-freq slider
    beatFreq,        \* value of the #beat-freq slider
    volume,          \* value of the #volume slider
    currentTime,     \* the engine clock of the current context
    pendingPlays,    \* play() calls suspended at "await this.audioContext.resume()"
    resumeSettled,   \* "no", or how the awaited resume() promises have just been settled
    promptShown,     \* the #audio-prompt element (with its button) is in the document
    docListener,     \* the once-only document click listener is still registered
    scheduled,       \* the nodes the last handler called setValueAtTime on
    shownErrors      \* the messages the last handler passed to showError

vars == <<audioContext, contexts, leftOscillator, rightOscillator, gainNode,
          oscillators, gains, isPlaying, startTime, timerInterval, intervals,
          nextInterval, timerText, wakeLock, locks, lockRequests, hasWakeLock,
          hasStereoPanner, isIOS, backgroundMode, iosWarnings, waveformStatus, autoPlays,
          resumeRetries,
          carrierFreq, beatFreq, volume, currentTime, pendingPlays, resumeSettled,
          promptShown, docListener, scheduled, shownErrors>>

graphVars == <<leftOscillator, rightOscillator, gainNode, oscillators, gains>>
timerVars == <<timerInterval, intervals, nextInterval, timerText>>
platformVars == <<hasWakeLock, hasStereoPanner, isIOS>>
pageVars == <<backgroundMode, iosWarnings, waveformStatus>>
timeoutVars == <<autoPlays, resumeRetries>>
lockVars  == <<wakeLock, locks, lockRequests, platformVars>>
paramVars == <<carrierFreq, beatFreq, volume>>
ctxVars   == <<audioContext, contexts, currentTime, promptShown, docListener>>

----------------------------------------------------------------------------
(* Bounds of the model *)

MaxPlays == 2      \* play() calls that got past the audio-context check
MaxClock == 3      \* the last engine-clock second
MaxWarnings == 2   \* #ios-warning elements in the document at a time
MaxAutoPlays == 2  \* auto-play timeouts pending at a time
MaxRetries == 2    \* resume-retry timeouts pending at a time

----------------------------------------------------------------------------
(* Values *)

NULL == -1

Hz(n) == 2 * n

\* this.bands[band].default
bands == [delta |-> Hz(2), theta |-> Hz(6), alpha |-> Hz(10),
          beta |-> Hz(20), gamma |-> Hz(40)]

BandNames == DOMAIN bands

\* this.presets
presets == [meditation |-> [carrier |-> Hz(400), beat |-> Hz(6),  volume |-> 40],
            focus      |-> [carrier |-> Hz(400), beat |-> Hz(10), volume |-> 50],
            sleep      |-> [carrier |-> Hz(300), beat |-> Hz(2),  volume |-> 30],
            creativity |-> [carrier |-> Hz(500), beat |-> Hz(25), volume |-> 60]]

\* the data-preset attribute of a clicked button: the catalog and a name not in it
PresetNames == DOMAIN presets \cup {"xyz"}

\* values the sliders are moved to
CarrierInputs == {Hz(10)}
BeatInputs == {Hz(40)}
VolumeInputs == {150}

\* values the sliders have when the page is loaded
InitialCarriers == {Hz(400)}
InitialBeats == {Hz(10)}
InitialVolumes == {50}

\* elapsed engine-clock seconds the interval callback is given: the first
\* minute, and the values around each change of the number of digits
ElapsedInputs == (0..61) \cup {119, 120, 599, 600, 601, 3599, 3600, 5999, 6000, 6001}

\* what new AudioContext() does: a context in one of these states, or an exception
CtorOutcomes == {"running", "suspended", "throws"}

----------------------------------------------------------------------------
(* Pure helpers *)

\* const leftFreq = carrierFreq - beatFreq / 2
leftFreq(carrier, beat) == carrier - beat \div 2

\* rightFreq with the halving forgotten
rightFreqWholeBeat(carrier, beat) == carrier + beat

\* const rightFreq = carrierFreq + beatFreq / 2
rightFreq(carrier, beat) == carrier + beat \div 2

\* volume / 100, in hundredths
gainValue(v) == (v * 100) \div 100

DigitChars == <<"0", "1", "2", "3", "4", "5", "6", "7", "8", "9">>

\* Number.prototype.toString of a non-negative integer, as its characters
RECURSIVE toString(_)
toString(n) ==
    IF n < 10 THEN <<DigitChars[n + 1]>>
    ELSE toString(n \div 10) \o <<DigitChars[(n % 10) + 1]>>

\* String.prototype.padStart with a one-character filler
RECURSIVE padStart(_, _, _)
padStart(str, targetLength, ch) ==
    IF Len(str) >= targetLength THEN str
    ELSE padStart(<<ch>> \o str, targetLength, ch)

\* the readout with the minutes wrapped at 100
formatElapsedWrapsMinutes(elapsed) ==
    LET minutes == (elapsed \div 60) % 100
        seconds == elapsed % 60
    IN padStart(toString(minutes), 2, "0") \o <<":">> \o padStart(toString(seconds), 2, "0")

\* the readout the interval callback writes for an elapsed time
formatElapsed(elapsed) ==
    LET minutes == elapsed \div 60
        seconds == elapsed % 60
    IN padStart(toString(minutes), 2, "0") \o <<":">> \o padStart(toString(seconds), 2, "0")

\* the literal '00:00'
ZeroReadout == <<"0", "0", ":", "0", "0">>

\* AudioParam.setValueAtTime on an oscillator's frequency, behind "if (handle)"
SetFrequency(os, handle, f) ==
    IF handle = NULL THEN os ELSE [os EXCEPT ![handle].frequency = f]

\* OscillatorNode.stop(), behind "if (handle)".  A stopped oscillator renders
\* nothing and pause() drops the only reference to it: its frequency is dropped
\* from the model
StopOscillator(os, handle) ==
    IF handle = NULL THEN os
    ELSE [os EXCEPT ![handle].stopped = TRUE, ![handle].frequency = NULL]

\* the oscillators updateCarrierFrequency / updateBeatFrequency schedule on
OscillatorTargets ==
    IF isPlaying
    THEN {<<"osc", h>> : h \in {leftOscillator, rightOscillator} \ {NULL}}
    ELSE {}

\* the gain updateVolume schedules on
GainTargets == IF gainNode # NULL THEN {<<"gain", gainNode>>} ELSE {}

\* updateCarrierFrequency retuning the left source only
updateCarrierFrequencyLeftOnly(os, frequency, beatSlider) ==
    IF isPlaying
    THEN SetFrequency(os, leftOscillator, leftFreq(frequency, beatSlider))
    ELSE os

\* updateCarrierFrequency(frequency), the beat read from its slider
updateCarrierFrequency(os, frequency, beatSlider) ==
    IF isPlaying
    THEN SetFrequency(SetFrequency(os, leftOscillator, leftFreq(frequency, beatSlider)),
                      rightOscillator, rightFreq(frequency, beatSlider))
    ELSE os

\* updateBeatFrequency(frequency), the carrier read from its slider
updateBeatFrequency(os, frequency, carrierSlider) ==
    IF isPlaying
    THEN SetFrequency(SetFrequency(os, leftOscillator, leftFreq(carrierSlider, frequency)),
                      rightOscillator, rightFreq(carrierSlider, frequency))
    ELSE os

\* updateVolume(volume)
updateVolume(gs, v) ==
    IF gainNode # NULL THEN [gs EXCEPT ![gainNode] = gainValue(v)] ELSE gs

\* audioContext.state === 'suspended'
Suspended(c) == contexts[c] \in {"suspended", "resuming"}

----------------------------------------------------------------------------
(* Enabling audio *)

\* no continuation of an awaiting function is due: the event loop takes the next
\* task (an event handler, a timer callback, a platform notification)
Quiet == resumeSettled = "no"

CtxNow == [audioContext |-> audioContext, contexts |-> contexts,
           promptShown |-> promptShown, currentTime |-> currentTime,
           failed |-> FALSE]

\* The contexts as "this.audioContext = new ..." leaves them: a context that was
\* stored there loses its only reference, and its state is dropped from the model
Replaced(cs, old) == IF old = NULL THEN cs ELSE [cs EXCEPT ![old] = "dropped"]

\* one run of the enableAudio closure: the constructor, then removeChild(prompt),
\* which throws when the prompt is no longer a child of the body
enableAudio(st, outcome) ==
    IF outcome = "throws" THEN [st EXCEPT !.failed = TRUE]
    ELSE LET created == [st EXCEPT !.contexts = Append(Replaced(@, st.audioContext),
                                                       outcome),
                                   !.audioContext = Len(st.contexts) + 1,
                                   !.currentTime = 0]
         IN IF st.promptShown THEN [created EXCEPT !.promptShown = FALSE]
            ELSE [created EXCEPT !.failed = TRUE]

ApplyCtx(st, errs) ==
    /\ audioContext' = st.audioContext
    /\ contexts' = st.contexts
    /\ promptShown' = st.promptShown
    /\ currentTime' = st.currentTime
    /\ shownErrors' = errs \cup (IF st.failed THEN {"create-failed"} ELSE {})

\* a click bubbles to the document: the once-only listener runs enableAudio
DocumentListener(errs) ==
    IF docListener
    THEN /\ \E outcome \in CtorOutcomes : ApplyCtx(enableAudio(CtxNow, outcome), errs)
         /\ docListener' = FALSE
    ELSE /\ UNCHANGED ctxVars
         /\ shownErrors' = errs

\* a click on the Enable Audio button: the button's listener, then the document's
ClickEnableAudio ==
    /\ UNCHANGED timeoutVars
    /\ Quiet
    /\ promptShown
    /\ \E o1, o2 \in CtorOutcomes :
          LET s1 == enableAudio(CtxNow, o1)
              s2 == IF docListener THEN enableAudio(s1, o2) ELSE s1
          IN ApplyCtx(s2, {})
    /\ docListener' = FALSE
    /\ scheduled' = {}
    /\ UNCHANGED <<graphVars, isPlaying, startTime, timerVars, lockVars, pageVars, paramVars,
                   pendingPlays, resumeSettled>>

\* a click on the page outside every control
ClickDocument ==
    /\ UNCHANGED timeoutVars
    /\ Quiet
    /\ docListener
    /\ DocumentListener({})
    /\ scheduled' = {}
    /\ UNCHANGED <<graphVars, isPlaying, startTime, timerVars, lockVars, pageVars, paramVars,
                   pendingPlays, resumeSettled>>

----------------------------------------------------------------------------
(* Playback *)

\* startTimer(): a new interval, its id stored over the old one
startTimer ==
    /\ timerInterval' = nextInterval
    /\ intervals' = intervals \cup {nextInterval}
    /\ nextInterval' = nextInterval + 1
    /\ UNCHANGED timerText

\* stopTimer()
stopTimer ==
    /\ IF timerInterval # NULL
       THEN intervals' = intervals \ {timerInterval} /\ timerInterval' = NULL
       ELSE UNCHANGED <<intervals, timerInterval>>
    /\ UNCHANGED nextInterval

\* requestWakeLock(), up to its await
requestWakeLock ==
    /\ lockRequests' = IF hasWakeLock THEN lockRequests + 1 ELSE lockRequests
    /\ UNCHANGED <<wakeLock, locks, platformVars, pageVars>>

\* releaseWakeLock()
releaseWakeLock ==
    /\ IF wakeLock # NULL
       THEN locks' = [locks EXCEPT ![wakeLock] = "released"] /\ wakeLock' = NULL
       ELSE UNCHANGED <<locks, wakeLock>>
    /\ UNCHANGED <<lockRequests, platformVars, pageVars>>

\* The master gains as play() leaves them when it stores a new node over
\* this.gainNode: the old node loses its only reference, and when both its sources
\* (the oscillators 2i-1 and 2i of graph i) are stopped it renders nothing either;
\* its value is then dropped from the model
Unreferenced(gs) ==
    [i \in DOMAIN gs |->
        IF i = gainNode /\ oscillators[2 * i - 1].stopped /\ oscillators[2 * i].stopped
        THEN NULL ELSE gs[i]]

\* play() building the master gain at the createGain() default of 1.0 instead
\* of the volume slider
playBuildDefaultGain ==
    LET l == Len(oscillators) + 1
        r == Len(oscillators) + 2
        g == Len(gains) + 1
    IN /\ oscillators' = oscillators \o
              << [frequency |-> leftFreq(carrierFreq, beatFreq),
                  started |-> TRUE, stopped |-> FALSE],
                 [frequency |-> rightFreq(carrierFreq, beatFreq),
                  started |-> TRUE, stopped |-> FALSE] >>
       /\ gains' = Append(Unreferenced(gains), 100)
       /\ leftOscillator' = l
       /\ rightOscillator' = r
       /\ gainNode' = g
       /\ scheduled' = {<<"osc", l>>, <<"osc", r>>, <<"gain", g>>}
       /\ isPlaying' = TRUE
       /\ startTime' = currentTime
       /\ startTimer
       /\ requestWakeLock
       /\ UNCHANGED paramVars

\* what the catch of play() shows for the build: createStereoPanner() is the
\* call of the build that the platform may lack, and calling it then throws
BuildErrors == IF hasStereoPanner THEN {} ELSE {"play-failed"}

\* play() keeping the start time of the session before, when there is one
playBuildKeepsStartTime ==
    LET l == Len(oscillators) + 1
        r == Len(oscillators) + 2
        g == Len(gains) + 1
    IN /\ oscillators' = oscillators \o
              << [frequency |-> leftFreq(carrierFreq, beatFreq),
                  started |-> hasStereoPanner, stopped |-> FALSE],
                 [frequency |-> rightFreq(carrierFreq, beatFreq),
                  started |-> hasStereoPanner, stopped |-> FALSE] >>
       /\ gains' = Append(Unreferenced(gains), gainValue(volume))
       /\ leftOscillator' = l
       /\ rightOscillator' = r
       /\ gainNode' = g
       /\ scheduled' = {<<"osc", l>>, <<"osc", r>>, <<"gain", g>>}
       /\ IF hasStereoPanner
          THEN /\ isPlaying' = TRUE
               /\ startTime' = IF startTime = NULL THEN currentTime ELSE startTime
               /\ startTimer
               /\ requestWakeLock
          ELSE UNCHANGED <<isPlaying, startTime, timerVars, lockVars, pageVars>>
       /\ UNCHANGED paramVars

\* play() setting the running flag before it builds the graph
playBuildFlagFirst ==
    LET l == Len(oscillators) + 1
        r == Len(oscillators) + 2
        g == Len(gains) + 1
    IN /\ oscillators' = oscillators \o
              << [frequency |-> leftFreq(carrierFreq, beatFreq),
                  started |-> hasStereoPanner, stopped |-> FALSE],
                 [frequency |-> rightFreq(carrierFreq, beatFreq),
                  started |-> hasStereoPanner, stopped |-> FALSE] >>
       /\ gains' = Append(Unreferenced(gains), gainValue(volume))
       /\ leftOscillator' = l
       /\ rightOscillator' = r
       /\ gainNode' = g
       /\ scheduled' = {<<"osc", l>>, <<"osc", r>>, <<"gain", g>>}
       /\ isPlaying' = TRUE
       /\ IF hasStereoPanner
          THEN /\ startTime' = currentTime
               /\ startTimer
               /\ requestWakeLock
          ELSE UNCHANGED <<startTime, timerVars, lockVars, pageVars>>
       /\ UNCHANGED paramVars

\* play() from "const carrierFreq = ..." to its end: the graph is built from the
\* sliders and its nodes stored over the handles; then, unless
\* createStereoPanner() throws, the panners are connected to the destination,
\* both sources are started, the start time is captured, a timer is started and
\* a wake lock requested
playBuild ==
    LET l == Len(oscillators) + 1
        r == Len(oscillators) + 2
        g == Len(gains) + 1
    IN /\ oscillators' = oscillators \o
              << [frequency |-> leftFreq(carrierFreq, beatFreq),
                  started |-> hasStereoPanner, stopped |-> FALSE],
                 [frequency |-> rightFreq(carrierFreq, beatFreq),
                  started |-> hasStereoPanner, stopped |-> FALSE] >>
       /\ gains' = Append(Unreferenced(gains), gainValue(volume))
       /\ leftOscillator' = l
       /\ rightOscillator' = r
       /\ gainNode' = g
       /\ scheduled' = {<<"osc", l>>, <<"osc", r>>, <<"gain", g>>}
       /\ IF hasStereoPanner
          THEN /\ isPlaying' = TRUE
               /\ startTime' = currentTime
               /\ startTimer
               /\ requestWakeLock
          ELSE UNCHANGED <<isPlaying, startTime, timerVars, lockVars, pageVars>>
       /\ UNCHANGED paramVars

\* OscillatorNode.stop() throws on a source that was never started
StopThrows(handle) == handle # NULL /\ ~oscillators[handle].started

\* pause() does not reach its end
pauseThrows == StopThrows(leftOscillator) \/ StopThrows(rightOscillator)

\* pause() stopping the sources without clearing their handles
pauseKeepsHandles ==
    /\ IF pauseThrows
       THEN UNCHANGED <<oscillators, isPlaying, timerInterval, intervals, nextInterval,
                        lockVars, pageVars>>
       ELSE /\ oscillators' = StopOscillator(StopOscillator(oscillators, leftOscillator),
                                             rightOscillator)
            /\ isPlaying' = FALSE
            /\ stopTimer
            /\ releaseWakeLock
    /\ scheduled' = {}
    /\ UNCHANGED <<leftOscillator, rightOscillator, gainNode, gains, paramVars,
                   pendingPlays, resumeSettled>>

\* pause(), to its end or to the stop() call that throws
pause ==
    /\ IF StopThrows(leftOscillator)
       THEN UNCHANGED <<oscillators, leftOscillator, rightOscillator, isPlaying,
                        timerInterval, intervals, nextInterval, lockVars, pageVars>>
       ELSE IF StopThrows(rightOscillator)
       THEN /\ oscillators' = StopOscillator(oscillators, leftOscillator)
            /\ leftOscillator' = NULL
            /\ UNCHANGED <<rightOscillator, isPlaying, timerInterval, intervals,
                           nextInterval, lockVars, pageVars>>
       ELSE /\ oscillators' = StopOscillator(StopOscillator(oscillators, leftOscillator),
                                             rightOscillator)
            /\ leftOscillator' = NULL
            /\ rightOscillator' = NULL
            /\ isPlaying' = FALSE
            /\ stopTimer
            /\ releaseWakeLock
    /\ scheduled' = {}
    /\ UNCHANGED <<gainNode, gains, paramVars, pendingPlays, resumeSettled>>

\* play() up to its await, called with isPlaying false by togglePlayback
play ==
    IF audioContext = NULL
    THEN /\ DocumentListener({"not-initialized"})
         /\ scheduled' = {}
         /\ UNCHANGED <<graphVars, isPlaying, startTime, timerVars, lockVars, pageVars,
                        paramVars, pendingPlays, resumeSettled>>
    ELSE /\ Len(gains) + pendingPlays < MaxPlays
         /\ IF Suspended(audioContext)
            THEN /\ pendingPlays' = pendingPlays + 1
                 /\ scheduled' = {}
                 /\ DocumentListener({})
                 /\ UNCHANGED <<graphVars, isPlaying, startTime, timerVars, lockVars, pageVars,
                                paramVars, resumeSettled>>
            ELSE /\ playBuild
                 /\ DocumentListener(BuildErrors)
                 /\ UNCHANGED <<pendingPlays, resumeSettled>>

\* togglePlayback() calling play() whatever the running flag is
TogglePlaybackIgnoresFlag ==
    /\ UNCHANGED timeoutVars
    /\ Quiet
    /\ play

\* a click on #play-pause: togglePlayback()
TogglePlayback ==
    /\ UNCHANGED timeoutVars
    /\ Quiet
    /\ IF isPlaying
       THEN /\ pause
            /\ DocumentListener({})
            /\ UNCHANGED <<startTime, timerText>>
       ELSE play

\* The platform settles the awaited resume().  Every resume() promise of a
\* context is settled in the same task: fulfilled once the context runs, or
\* rejected.  The suspended play() calls then continue one after the other, as
\* microtasks, before any other handler runs.
ResumeSettled ==
    /\ UNCHANGED timeoutVars
    /\ Quiet
    /\ pendingPlays > 0
    /\ \E fulfilled \in BOOLEAN :
          IF fulfilled
          THEN /\ resumeSettled' = "fulfilled"
               /\ contexts' = [contexts EXCEPT ![audioContext] = "running"]
          ELSE /\ resumeSettled' = "rejected"
               /\ contexts' = [contexts EXCEPT ![audioContext] = "suspended"]
    /\ scheduled' = {}
    /\ shownErrors' = {}
    /\ UNCHANGED <<audioContext, currentTime, promptShown, docListener, graphVars,
                   isPlaying, startTime, timerVars, lockVars, pageVars, paramVars, pendingPlays>>

\* play() going on to build its graph after a rejected resume()
PlayResumedIgnoresRejection ==
    /\ UNCHANGED timeoutVars
    /\ resumeSettled # "no"
    /\ pendingPlays' = pendingPlays - 1
    /\ resumeSettled' = IF pendingPlays = 1 THEN "no" ELSE resumeSettled
    /\ playBuild
    /\ shownErrors' = IF resumeSettled = "fulfilled" THEN {} ELSE {"play-failed"}
    /\ UNCHANGED ctxVars

\* one suspended play() continues after its await: it builds its graph, or its
\* catch shows the error
PlayResumed ==
    /\ UNCHANGED timeoutVars
    /\ resumeSettled # "no"
    /\ pendingPlays' = pendingPlays - 1
    /\ resumeSettled' = IF pendingPlays = 1 THEN "no" ELSE resumeSettled
    /\ IF resumeSettled = "fulfilled"
       THEN /\ playBuild
            /\ shownErrors' = BuildErrors
       ELSE /\ shownErrors' = {"play-failed"}
            /\ scheduled' = {}
            /\ UNCHANGED <<graphVars, isPlaying, startTime, timerVars, lockVars, pageVars,
                           paramVars>>
    /\ UNCHANGED ctxVars

\* stop() leaving the captured start time in place
StopKeepsStartTime ==
    /\ UNCHANGED timeoutVars
    /\ Quiet
    /\ pause
    /\ IF pauseThrows
       THEN UNCHANGED <<startTime, timerText>>
       ELSE /\ UNCHANGED startTime
            /\ timerText' = ZeroReadout
    /\ DocumentListener({})

\* a click on #stop: stop()
Stop ==
    /\ UNCHANGED timeoutVars
    /\ Quiet
    /\ pause
    /\ IF pauseThrows
       THEN UNCHANGED <<startTime, timerText>>
       ELSE /\ startTime' = NULL
            /\ timerText' = ZeroReadout
    /\ DocumentListener({})

----------------------------------------------------------------------------
(* Parameters *)

\* an input event of the #carrier-freq slider
CarrierInput(v) ==
    /\ UNCHANGED timeoutVars
    /\ Quiet
    /\ carrierFreq' = v
    /\ oscillators' = updateCarrierFrequency(oscillators, v, beatFreq)
    /\ scheduled' = OscillatorTargets
    /\ shownErrors' = {}
    /\ UNCHANGED <<ctxVars, leftOscillator, rightOscillator, gainNode, gains,
                   isPlaying, startTime, timerVars, lockVars, pageVars, beatFreq, volume,
                   pendingPlays, resumeSettled>>

\* an input event of the #beat-freq slider
BeatInput(v) ==
    /\ UNCHANGED timeoutVars
    /\ Quiet
    /\ beatFreq' = v
    /\ oscillators' = updateBeatFrequency(oscillators, v, carrierFreq)
    /\ scheduled' = OscillatorTargets
    /\ shownErrors' = {}
    /\ UNCHANGED <<ctxVars, leftOscillator, rightOscillator, gainNode, gains,
                   isPlaying, startTime, timerVars, lockVars, pageVars, carrierFreq, volume,
                   pendingPlays, resumeSettled>>

\* an input event of the #volume slider
VolumeInput(v) ==
    /\ UNCHANGED timeoutVars
    /\ Quiet
    /\ volume' = v
    /\ gains' = updateVolume(gains, v)
    /\ scheduled' = GainTargets
    /\ shownErrors' = {}
    /\ UNCHANGED <<ctxVars, leftOscillator, rightOscillator, gainNode, oscillators,
                   isPlaying, startTime, timerVars, lockVars, pageVars, carrierFreq, beatFreq,
                   pendingPlays, resumeSettled>>

\* setFrequencyBand keeping the carrier the slider has
SetFrequencyBandKeepsCarrier(band) ==
    LET beat == bands[band]
    IN /\ Quiet
       /\ UNCHANGED timeoutVars
       /\ beatFreq' = beat
       /\ oscillators' = updateBeatFrequency(oscillators, beat, carrierFreq)
       /\ scheduled' = OscillatorTargets
       /\ DocumentListener({})
       /\ UNCHANGED <<leftOscillator, rightOscillator, gainNode, gains, isPlaying,
                      startTime, timerVars, lockVars, pageVars, carrierFreq, volume,
                      pendingPlays, resumeSettled>>

\* a click on a band button: setFrequencyBand(band)
SetFrequencyBand(band) ==
    LET beat == bands[band]
        carrier == Hz(400)
    IN /\ Quiet
       /\ UNCHANGED timeoutVars
       /\ beatFreq' = beat
       /\ carrierFreq' = carrier
       /\ oscillators' =
             updateCarrierFrequency(updateBeatFrequency(oscillators, beat, carrier),
                                    carrier, beat)
       /\ scheduled' = OscillatorTargets
       /\ DocumentListener({})
       /\ UNCHANGED <<leftOscillator, rightOscillator, gainNode, gains, isPlaying,
                      startTime, timerVars, lockVars, pageVars, volume, pendingPlays,
                      resumeSettled>>

\* loadPreset leaving the volume slider and the master gain alone
LoadPresetKeepsVolume(presetName) ==
    /\ UNCHANGED timeoutVars
    /\ Quiet
    /\ IF presetName \in DOMAIN presets
       THEN LET preset == presets[presetName]
            IN /\ carrierFreq' = preset.carrier
               /\ beatFreq' = preset.beat
               /\ oscillators' =
                     updateBeatFrequency(
                         updateCarrierFrequency(oscillators, preset.carrier, preset.beat),
                         preset.beat, preset.carrier)
               /\ scheduled' = OscillatorTargets
               /\ UNCHANGED <<volume, gains>>
       ELSE /\ scheduled' = {}
            /\ UNCHANGED <<paramVars, oscillators, gains>>
    /\ DocumentListener({})
    /\ UNCHANGED <<leftOscillator, rightOscillator, gainNode, isPlaying, startTime,
                   timerVars, lockVars, pageVars, pendingPlays, resumeSettled>>

\* a click on a preset button: loadPreset(presetName)
LoadPreset(presetName) ==
    /\ UNCHANGED timeoutVars
    /\ Quiet
    /\ IF presetName \in DOMAIN presets
       THEN LET preset == presets[presetName]
            IN /\ carrierFreq' = preset.carrier
               /\ beatFreq' = preset.beat
               /\ volume' = preset.volume
               /\ oscillators' =
                     updateBeatFrequency(
                         updateCarrierFrequency(oscillators, preset.carrier, preset.beat),
                         preset.beat, preset.carrier)
               /\ gains' = updateVolume(gains, preset.volume)
               /\ scheduled' = OscillatorTargets \cup GainTargets
       ELSE /\ scheduled' = {}
            /\ UNCHANGED <<paramVars, oscillators, gains>>
    /\ DocumentListener({})
    /\ UNCHANGED <<leftOscillator, rightOscillator, gainNode, isPlaying, startTime,
                   timerVars, lockVars, pageVars, pendingPlays, resumeSettled>>

\* a click on a quick-preset button: loadPreset(preset), then, while not
\* playing, setTimeout(() => this.togglePlayback(), 100)
QuickPreset(presetName) ==
    /\ Quiet
    /\ isPlaying \/ autoPlays < MaxAutoPlays
    /\ autoPlays' = IF isPlaying THEN autoPlays ELSE autoPlays + 1
    /\ UNCHANGED resumeRetries
    /\ IF presetName \in DOMAIN presets
       THEN LET preset == presets[presetName]
            IN /\ carrierFreq' = preset.carrier
               /\ beatFreq' = preset.beat
               /\ volume' = preset.volume
               /\ oscillators' =
                     updateBeatFrequency(
                         updateCarrierFrequency(oscillators, preset.carrier, preset.beat),
                         preset.beat, preset.carrier)
               /\ gains' = updateVolume(gains, preset.volume)
               /\ scheduled' = OscillatorTargets \cup GainTargets
       ELSE /\ scheduled' = {}
            /\ UNCHANGED <<paramVars, oscillators, gains>>
    /\ DocumentListener({})
    /\ UNCHANGED <<leftOscillator, rightOscillator, gainNode, isPlaying, startTime,
                   timerVars, lockVars, pageVars, pendingPlays, resumeSettled>>

\* the timeout of a quick-preset click fires: togglePlayback().  No click is
\* delivered, and the once-only document listener ran with the click that set
\* the timeout, so the DocumentListener inside play changes nothing here.
AutoPlayFires ==
    /\ Quiet
    /\ autoPlays > 0
    /\ autoPlays' = autoPlays - 1
    /\ UNCHANGED resumeRetries
    /\ IF isPlaying
       THEN /\ pause
            /\ shownErrors' = {}
            /\ UNCHANGED <<ctxVars, startTime, timerText>>
       ELSE play

----------------------------------------------------------------------------
(* The platform: engine clock, interval callbacks, audio context, wake lock *)

\* the engine clock of a running context advances
ClockAdvance ==
    /\ UNCHANGED timeoutVars
    /\ Quiet
    /\ audioContext # NULL
    /\ contexts[audioContext] = "running"
    /\ currentTime < MaxClock
    /\ currentTime' = currentTime + 1
    /\ scheduled' = {}
    /\ shownErrors' = {}
    /\ UNCHANGED <<audioContext, contexts, promptShown, docListener, graphVars,
                   isPlaying, startTime, timerVars, lockVars, pageVars, paramVars, pendingPlays,
                   resumeSettled>>

\* the interval callback restarting the count as it writes the readout
TimerTickRestartsCount ==
    /\ UNCHANGED timeoutVars
    /\ Quiet
    /\ \E id \in intervals :
       /\ timerText' = IF startTime # NULL /\ startTime # 0
                       THEN formatElapsed(currentTime - startTime)
                       ELSE timerText
       /\ startTime' = currentTime
       /\ scheduled' = {}
       /\ shownErrors' = {}
       /\ UNCHANGED <<ctxVars, graphVars, isPlaying, timerInterval,
                      intervals, nextInterval, lockVars, pageVars, paramVars, pendingPlays,
                      resumeSettled>>

\* the callback startTimer gave to setInterval fires; "if (this.startTime)" is
\* false for null and for 0
TimerTick ==
    /\ UNCHANGED timeoutVars
    /\ Quiet
    /\ \E id \in intervals :
       /\ timerText' = IF startTime # NULL /\ startTime # 0
                       THEN formatElapsed(currentTime - startTime)
                       ELSE timerText
       /\ scheduled' = {}
       /\ shownErrors' = {}
       /\ UNCHANGED <<ctxVars, graphVars, isPlaying, startTime, timerInterval,
                      intervals, nextInterval, lockVars, pageVars, paramVars, pendingPlays,
                      resumeSettled>>

\* an animation frame of the waveform canvas: drawWaveform() reads isPlaying
\* and the sliders, paints the canvas and writes the status text
drawWaveform ==
    /\ UNCHANGED timeoutVars
    /\ Quiet
    /\ waveformStatus' = IF isPlaying THEN "Playing" ELSE "Stopped"
    /\ scheduled' = {}
    /\ shownErrors' = {}
    /\ UNCHANGED <<ctxVars, graphVars, isPlaying, startTime, timerVars, lockVars,
                   backgroundMode, iosWarnings, paramVars, pendingPlays,
                   resumeSettled>>

\* the context has the statechange listener of setupIOSAudioHandling(): on iOS,
\* the context of the enableAudio run that removed the prompt, which is the
\* first context created
HasStateListener(c) == isIOS /\ c = 1

\* the timeout of the statechange listener fires: resume() on a context that
\* is still suspended
ResumeRetryFires ==
    /\ Quiet
    /\ resumeRetries > 0
    /\ resumeRetries' = resumeRetries - 1
    /\ contexts' = IF Suspended(audioContext)
                   THEN [contexts EXCEPT ![audioContext] = "resuming"]
                   ELSE contexts
    /\ scheduled' = {}
    /\ shownErrors' = {}
    /\ UNCHANGED <<audioContext, currentTime, promptShown, docListener, graphVars,
                   isPlaying, startTime, timerVars, lockVars, pageVars, paramVars,
                   pendingPlays, resumeSettled, autoPlays>>

\* the platform suspends the running audio context; its statechange listener,
\* while Running, sets the 100 ms timeout of the resume retry
ContextSuspended ==
    /\ Quiet
    /\ audioContext # NULL
    /\ contexts[audioContext] = "running"
    /\ IF HasStateListener(audioContext) /\ isPlaying
       THEN /\ resumeRetries < MaxRetries
            /\ resumeRetries' = resumeRetries + 1
       ELSE UNCHANGED resumeRetries
    /\ UNCHANGED autoPlays
    /\ contexts' = [contexts EXCEPT ![audioContext] = "suspended"]
    /\ scheduled' = {}
    /\ shownErrors' = {}
    /\ UNCHANGED <<audioContext, currentTime, promptShown, docListener, graphVars,
                   isPlaying, startTime, timerVars, lockVars, pageVars, paramVars, pendingPlays,
                   resumeSettled>>

\* visibilitychange with the page visible again: handleForegroundTransition()
\* calls resume() on a suspended context while Running
PageShown ==
    /\ UNCHANGED timeoutVars
    /\ Quiet
    /\ contexts' = IF /\ backgroundMode /\ isPlaying
                      /\ audioContext # NULL /\ Suspended(audioContext)
                   THEN [contexts EXCEPT ![audioContext] = "resuming"]
                   ELSE contexts
    /\ scheduled' = {}
    /\ shownErrors' = {}
    /\ UNCHANGED <<audioContext, currentTime, promptShown, docListener, graphVars,
                   isPlaying, startTime, timerVars, lockVars, pageVars, paramVars, pendingPlays,
                   resumeSettled>>

\* handleBackgroundTransition() showing the warning on every platform
PageHiddenWarnsEverywhere ==
    /\ UNCHANGED timeoutVars
    /\ Quiet
    /\ iosWarnings < MaxWarnings
    /\ iosWarnings' = IF backgroundMode /\ isPlaying
                      THEN iosWarnings + 1 ELSE iosWarnings
    /\ scheduled' = {}
    /\ shownErrors' = {}
    /\ UNCHANGED <<ctxVars, graphVars, isPlaying, startTime, timerVars, lockVars,
                   backgroundMode, waveformStatus, paramVars, pendingPlays,
                   resumeSettled>>

\* visibilitychange with the page hidden (and pagehide on Safari and iOS):
\* handleBackgroundTransition() shows the warning on iOS
PageHidden ==
    /\ UNCHANGED timeoutVars
    /\ Quiet
    /\ iosWarnings < MaxWarnings
    /\ iosWarnings' = IF backgroundMode /\ isPlaying /\ isIOS
                      THEN iosWarnings + 1 ELSE iosWarnings
    /\ scheduled' = {}
    /\ shownErrors' = {}
    /\ UNCHANGED <<ctxVars, graphVars, isPlaying, startTime, timerVars, lockVars,
                   backgroundMode, waveformStatus, paramVars, pendingPlays,
                   resumeSettled>>

\* the timeout of showIOSBackgroundWarning() removes its warning after 5 s
WarningTimeout ==
    /\ UNCHANGED timeoutVars
    /\ Quiet
    /\ iosWarnings > 0
    /\ iosWarnings' = iosWarnings - 1
    /\ scheduled' = {}
    /\ shownErrors' = {}
    /\ UNCHANGED <<ctxVars, graphVars, isPlaying, startTime, timerVars, lockVars,
                   backgroundMode, waveformStatus, paramVars, pendingPlays,
                   resumeSettled>>

\* a click on the #background-mode checkbox: its change listener
BackgroundModeChange(checked) ==
    /\ UNCHANGED timeoutVars
    /\ Quiet
    /\ backgroundMode' = checked
    /\ scheduled' = {}
    /\ DocumentListener({})
    /\ UNCHANGED <<graphVars, isPlaying, startTime, timerVars, lockVars, iosWarnings,
                   waveformStatus, paramVars, pendingPlays, resumeSettled>>

\* touchstart on iOS: the listener of setupIOSAudioHandling() calls resume() on
\* a suspended context
TouchStart ==
    /\ UNCHANGED timeoutVars
    /\ Quiet
    /\ isIOS
    /\ contexts' = IF audioContext # NULL /\ Suspended(audioContext)
                   THEN [contexts EXCEPT ![audioContext] = "resuming"]
                   ELSE contexts
    /\ scheduled' = {}
    /\ shownErrors' = {}
    /\ UNCHANGED <<audioContext, currentTime, promptShown, docListener, graphVars,
                   isPlaying, startTime, timerVars, lockVars, pageVars, paramVars,
                   pendingPlays, resumeSettled>>

\* The platform settles the resume() of handleForegroundTransition: fulfilled,
\* the context runs and the then-callback logs; rejected, no handler is attached
\* and nothing runs.  With a play() suspended on the same context the promises
\* are settled together, in ResumeSettled.
ForegroundResumeSettled ==
    /\ UNCHANGED timeoutVars
    /\ Quiet
    /\ pendingPlays = 0
    /\ audioContext # NULL
    /\ contexts[audioContext] = "resuming"
    /\ \E fulfilled \in BOOLEAN :
          contexts' = [contexts EXCEPT
                         ![audioContext] = IF fulfilled THEN "running" ELSE "suspended"]
    /\ scheduled' = {}
    /\ shownErrors' = {}
    /\ UNCHANGED <<audioContext, currentTime, promptShown, docListener, graphVars,
                   isPlaying, startTime, timerVars, lockVars, pageVars, paramVars, pendingPlays,
                   resumeSettled>>

\* the continuation of requestWakeLock() ending the session when the request is
\* rejected
WakeLockSettledEndsSession ==
    /\ UNCHANGED timeoutVars
    /\ Quiet
    /\ lockRequests > 0
    /\ lockRequests' = lockRequests - 1
    /\ \E fulfilled \in BOOLEAN :
          IF fulfilled
          THEN /\ locks' = Append(locks, "held")
               /\ wakeLock' = Len(locks) + 1
               /\ UNCHANGED isPlaying
          ELSE /\ isPlaying' = FALSE
               /\ UNCHANGED <<locks, wakeLock>>
    /\ scheduled' = {}
    /\ shownErrors' = {}
    /\ UNCHANGED <<ctxVars, graphVars, startTime, timerVars, platformVars, pageVars,
                   paramVars, pendingPlays, resumeSettled>>

\* the awaited navigator.wakeLock.request('screen') settles: fulfilled, the
\* sentinel is stored in this.wakeLock; rejected, the catch logs
WakeLockSettled ==
    /\ UNCHANGED timeoutVars
    /\ Quiet
    /\ lockRequests > 0
    /\ lockRequests' = lockRequests - 1
    /\ \E fulfilled \in BOOLEAN :
          IF fulfilled
          THEN /\ locks' = Append(locks, "held")
               /\ wakeLock' = Len(locks) + 1
          ELSE UNCHANGED <<locks, wakeLock>>
    /\ scheduled' = {}
    /\ shownErrors' = {}
    /\ UNCHANGED <<ctxVars, graphVars, isPlaying, startTime, timerVars, platformVars, pageVars,
                   paramVars, pendingPlays, resumeSettled>>

\* the platform revokes a held wake lock and the engine requests another
WakeLockRevokedRequestsAgain ==
    /\ UNCHANGED timeoutVars
    /\ Quiet
    /\ \E i \in DOMAIN locks :
       /\ locks[i] = "held"
       /\ locks' = [locks EXCEPT ![i] = "released"]
       /\ lockRequests' = lockRequests + 1
       /\ scheduled' = {}
       /\ shownErrors' = {}
       /\ UNCHANGED <<ctxVars, graphVars, isPlaying, startTime, timerVars, wakeLock,
                      platformVars, pageVars, paramVars, pendingPlays, resumeSettled>>

\* the platform revokes a held wake lock
WakeLockRevoked ==
    /\ UNCHANGED timeoutVars
    /\ Quiet
    /\ \E i \in DOMAIN locks :
       /\ locks[i] = "held"
       /\ locks' = [locks EXCEPT ![i] = "released"]
       /\ scheduled' = {}
       /\ shownErrors' = {}
       /\ UNCHANGED <<ctxVars, graphVars, isPlaying, startTime, timerVars, wakeLock,
                      lockRequests, platformVars, pageVars, paramVars, pendingPlays, resumeSettled>>

----------------------------------------------------------------------------
(* Specification *)

Init ==
    /\ audioContext = NULL
    /\ contexts = <<>>
    /\ leftOscillator = NULL
    /\ rightOscillator = NULL
    /\ gainNode = NULL
    /\ oscillators = <<>>
    /\ gains = <<>>
    /\ isPlaying = FALSE
    /\ startTime = NULL
    /\ timerInterval = NULL
    /\ intervals = {}
    /\ nextInterval = 1
    /\ timerText = ZeroReadout
    /\ wakeLock = NULL
    /\ locks = <<>>
    /\ lockRequests = 0
    /\ hasWakeLock \in BOOLEAN
    /\ hasStereoPanner \in BOOLEAN
    /\ isIOS \in BOOLEAN
    /\ backgroundMode = TRUE
    /\ iosWarnings = 0
    /\ waveformStatus = "Stopped"
    /\ autoPlays = 0
    /\ resumeRetries = 0
    /\ carrierFreq \in InitialCarriers
    /\ beatFreq \in InitialBeats
    /\ volume \in InitialVolumes
    /\ currentTime = 0
    /\ pendingPlays = 0
    /\ resumeSettled = "no"
    /\ promptShown = TRUE
    /\ docListener = TRUE
    /\ scheduled = {}
    /\ shownErrors = {}

Next ==
    \/ ClickEnableAudio
    \/ ClickDocument
    \/ TogglePlayback
    \/ ResumeSettled
    \/ PlayResumed
    \/ Stop
    \/ \E v \in CarrierInputs : CarrierInput(v)
    \/ \E v \in BeatInputs : BeatInput(v)
    \/ \E v \in VolumeInputs : VolumeInput(v)
    \/ \E band \in BandNames : SetFrequencyBand(band)
    \/ \E presetName \in PresetNames : LoadPreset(presetName)
    \/ ClockAdvance
    \/ TimerTick
    \/ ContextSuspended
    \/ PageShown
    \/ PageHidden
    \/ WarningTimeout
    \/ \E checked \in BOOLEAN : BackgroundModeChange(checked)
    \/ TouchStart
    \/ ForegroundResumeSettled
    \/ WakeLockSettled
    \/ WakeLockRevoked
    \/ drawWaveform
    \/ \E presetName \in PresetNames : QuickPreset(presetName)
    \/ AutoPlayFires
    \/ ResumeRetryFires

Spec == Init /\ [][Next]_vars

\* The audio graph and the parameters, on a platform with the wake-lock
\* capability.  The actions left out (engine clock, interval callbacks, wake-lock
\* settlement) write none of the variables the actions kept here read in a guard
\* or copy into the graph, and no action kept here reads the wake-lock state
\* into another variable.  The platform has createStereoPanner: play() builds
\* its graph to the end.  The platform is not iOS: the listeners that
\* setupIOSAudioHandling() registers do not exist.
InitGraph == Init /\ hasWakeLock /\ hasStereoPanner /\ ~isIOS

NextGraph ==
    \/ ClickEnableAudio
    \/ ClickDocument
    \/ TogglePlayback
    \/ ResumeSettled
    \/ PlayResumed
    \/ Stop
    \/ \E v \in CarrierInputs : CarrierInput(v)
    \/ \E v \in BeatInputs : BeatInput(v)
    \/ \E v \in VolumeInputs : VolumeInput(v)
    \/ \E band \in BandNames : SetFrequencyBand(band)
    \/ \E presetName \in PresetNames : LoadPreset(presetName)
    \/ ContextSuspended

SpecGraph == InitGraph /\ [][NextGraph]_vars

\* The session, the engine clock and the interval callbacks, at the slider values
\* of the page load.  The actions left out write the sliders, the node values and
\* the wake lock only, which no timer code reads.
NextTimer ==
    \/ ClickEnableAudio
    \/ ClickDocument
    \/ TogglePlayback
    \/ ResumeSettled
    \/ PlayResumed
    \/ Stop
    \/ ClockAdvance
    \/ TimerTick
    \/ ContextSuspended

SpecTimer == InitGraph /\ [][NextTimer]_vars

\* The session and the page lifecycle: the context is suspended and resumed under
\* a session, with the volume slider moved in between.
NextLifecycle ==
    \/ ClickEnableAudio
    \/ ClickDocument
    \/ TogglePlayback
    \/ ResumeSettled
    \/ PlayResumed
    \/ Stop
    \/ \E v \in VolumeInputs : VolumeInput(v)
    \/ \E checked \in BOOLEAN : BackgroundModeChange(checked)
    \/ ContextSuspended
    \/ PageShown
    \/ ForegroundResumeSettled

SpecLifecycle == InitGraph /\ [][NextLifecycle]_vars

\* The page comes to the foreground again and again, the platform settles every
\* resume(), and a continuation that is due runs
SpecLifecycleLive ==
    /\ SpecLifecycle
    /\ SF_vars(PageShown)
    /\ WF_vars(ForegroundResumeSettled)
    /\ WF_vars(PlayResumed)

\* The session and the page going to the background and back, on iOS and on
\* other platforms, with the touchstart and statechange listeners of
\* setupIOSAudioHandling().
InitBackground == Init /\ hasWakeLock /\ hasStereoPanner

NextBackground ==
    \/ ClickEnableAudio
    \/ ClickDocument
    \/ TogglePlayback
    \/ ResumeSettled
    \/ PlayResumed
    \/ Stop
    \/ \E checked \in BOOLEAN : BackgroundModeChange(checked)
    \/ ContextSuspended
    \/ PageHidden
    \/ WarningTimeout
    \/ PageShown
    \/ TouchStart
    \/ ResumeRetryFires
    \/ ForegroundResumeSettled

SpecBackground == InitBackground /\ [][NextBackground]_vars

\* The session with its periodic callbacks: the interval callback of the timer
\* and the animation frames of the waveform canvas.
NextFrames ==
    \/ ClickEnableAudio
    \/ ClickDocument
    \/ TogglePlayback
    \/ ResumeSettled
    \/ PlayResumed
    \/ Stop
    \/ ClockAdvance
    \/ TimerTick
    \/ drawWaveform
    \/ WakeLockSettled

SpecFrames == InitGraph /\ [][NextFrames]_vars

\* The interval callback as a function of the elapsed time: a session started
\* at engine-clock second 1 is Running, the clock is ElapsedInputs later, and
\* the callback fires.
InitFormat ==
    /\ audioContext = 1
    /\ contexts = <<"running">>
    /\ leftOscillator = 1
    /\ rightOscillator = 2
    /\ gainNode = 1
    /\ \E carrier \in InitialCarriers, beat \in InitialBeats :
          /\ carrierFreq = carrier
          /\ beatFreq = beat
          /\ oscillators = << [frequency |-> leftFreq(carrier, beat),
                               started |-> TRUE, stopped |-> FALSE],
                              [frequency |-> rightFreq(carrier, beat),
                               started |-> TRUE, stopped |-> FALSE] >>
    /\ \E v \in InitialVolumes : volume = v /\ gains = <<gainValue(v)>>
    /\ isPlaying = TRUE
    /\ startTime = 1
    /\ \E e \in ElapsedInputs : currentTime = 1 + e
    /\ timerInterval = 1
    /\ intervals = {1}
    /\ nextInterval = 2
    /\ timerText = ZeroReadout
    /\ wakeLock = NULL
    /\ locks = <<>>
    /\ lockRequests = 1
    /\ hasWakeLock = TRUE
    /\ hasStereoPanner = TRUE
    /\ isIOS = FALSE
    /\ backgroundMode = TRUE
    /\ iosWarnings = 0
    /\ waveformStatus = "Stopped"
    /\ autoPlays = 0
    /\ resumeRetries = 0
    /\ pendingPlays = 0
    /\ resumeSettled = "no"
    /\ promptShown = FALSE
    /\ docListener = FALSE
    /\ scheduled = {}
    /\ shownErrors = {}

NextFormat == TimerTick

SpecFormat == InitFormat /\ [][NextFormat]_vars

\* The session on a platform without createStereoPanner: every build of play()
\* stops at the first panner.
InitBuild == Init /\ hasWakeLock /\ ~hasStereoPanner /\ ~isIOS

NextBuild ==
    \/ ClickEnableAudio
    \/ ClickDocument
    \/ TogglePlayback
    \/ ResumeSettled
    \/ PlayResumed
    \/ Stop
    \/ \E v \in VolumeInputs : VolumeInput(v)
    \/ ContextSuspended

SpecBuild == InitBuild /\ [][NextBuild]_vars

\* The sessions and their tone sources, on platforms with and without
\* createStereoPanner.
InitSources == Init /\ hasWakeLock /\ ~isIOS

SpecSources == InitSources /\ [][NextBuild]_vars

\* The session and the wake lock: requests are settled and sentinels revoked
\* while sessions start and end, at the slider values of the page load.
NextLock ==
    \/ ClickEnableAudio
    \/ ClickDocument
    \/ TogglePlayback
    \/ ResumeSettled
    \/ PlayResumed
    \/ Stop
    \/ ContextSuspended
    \/ WakeLockSettled
    \/ WakeLockRevoked

SpecLock == InitGraph /\ [][NextLock]_vars

\* The starts that fail and the starts after them: no context, a rejected
\* resume(), a build on a platform without createStereoPanner, a rejected
\* wake-lock request.
SpecRetry == InitSources /\ [][NextLock]_vars

\* A stop() during a start: audio was enabled with a suspended context, a
\* togglePlayback() waits at "await this.audioContext.resume()" and stop() has
\* just returned (it found nothing to stop and left every field as it was).
\* No start is requested from here on.
InitCancel ==
    /\ audioContext = 2
    /\ contexts = <<"dropped", "suspended">>
    /\ leftOscillator = NULL
    /\ rightOscillator = NULL
    /\ gainNode = NULL
    /\ oscillators = <<>>
    /\ gains = <<>>
    /\ isPlaying = FALSE
    /\ startTime = NULL
    /\ timerInterval = NULL
    /\ intervals = {}
    /\ nextInterval = 1
    /\ timerText = ZeroReadout
    /\ wakeLock = NULL
    /\ locks = <<>>
    /\ lockRequests = 0
    /\ hasWakeLock \in BOOLEAN
    /\ hasStereoPanner = TRUE
    /\ isIOS = FALSE
    /\ backgroundMode = TRUE
    /\ iosWarnings = 0
    /\ waveformStatus = "Stopped"
    /\ autoPlays = 0
    /\ resumeRetries = 0
    /\ carrierFreq \in InitialCarriers
    /\ beatFreq \in InitialBeats
    /\ volume \in InitialVolumes
    /\ currentTime = 0
    /\ pendingPlays = 1
    /\ resumeSettled = "no"
    /\ promptShown = FALSE
    /\ docListener = FALSE
    /\ scheduled = {}
    /\ shownErrors = {}

NextCancel ==
    \/ Stop
    \/ ResumeSettled
    \/ PlayResumed
    \/ ClockAdvance
    \/ TimerTick
    \/ \E v \in VolumeInputs : VolumeInput(v)
    \/ WakeLockSettled
    \/ WakeLockRevoked

SpecCancel == InitCancel /\ [][NextCancel]_vars

\* The quick-preset buttons: the clicks, their auto-play timeouts, and the
\* enabling of audio; no other control is used.
NextQuick ==
    \/ ClickEnableAudio
    \/ ClickDocument
    \/ \E presetName \in PresetNames : QuickPreset(presetName)
    \/ AutoPlayFires
    \/ WakeLockSettled

SpecQuick == InitGraph /\ [][NextQuick]_vars

\* The session on iOS with the suspensions of the context and the resume
\* retries of the statechange listener.
InitStateChange == Init /\ hasWakeLock /\ hasStereoPanner /\ isIOS

NextStateChange ==
    \/ ClickEnableAudio
    \/ ClickDocument
    \/ TogglePlayback
    \/ ResumeSettled
    \/ PlayResumed
    \/ Stop
    \/ ContextSuspended
    \/ ResumeRetryFires
    \/ ForegroundResumeSettled

SpecStateChange == InitStateChange /\ [][NextStateChange]_vars

\* The session with its clock, its interval callbacks and its wake-lock
\* requests: what pause() and stop() end.
NextSession ==
    \/ ClickEnableAudio
    \/ ClickDocument
    \/ TogglePlayback
    \/ ResumeSettled
    \/ PlayResumed
    \/ Stop
    \/ ClockAdvance
    \/ TimerTick
    \/ ContextSuspended
    \/ WakeLockSettled

SpecSession == InitGraph /\ [][NextSession]_vars

\* The session and the wake lock on platforms with and without the wake-lock
\* capability.
InitWakeLock == Init /\ hasStereoPanner /\ ~isIOS

SpecWakeLock == InitWakeLock /\ [][NextLock]_vars

\* setInterval keeps calling its callback, and a continuation that is due runs
SpecTimerLive == SpecTimer /\ WF_vars(TimerTick) /\ WF_vars(PlayResumed)

----------------------------------------------------------------------------
(* Properties *)

\* a tone source that was started and not stopped
Live(i) == oscillators[i].started /\ ~oscillators[i].stopped

LiveOscillators == {i \in DOMAIN oscillators : Live(i)}

\* play() stores the left source of a graph at an odd index, the right at the next
LeftSources == {i \in DOMAIN oscillators : i % 2 = 1}
RightSources == {i \in DOMAIN oscillators : i % 2 = 0}

\* a slider input handler: setCarrier, setBeat, setVolume
Retune ==
    \/ \E v \in CarrierInputs : CarrierInput(v)
    \/ \E v \in BeatInputs : BeatInput(v)
    \/ \E v \in VolumeInputs : VolumeInput(v)

\* C1: a play() that goes on while the engine is Running is a no-op: it creates
\* no node and no timer, and the handles and the start time stay as they were.
C1_StartWhileRunningIsNoOp ==
    [][(isPlaying /\ PlayResumed /\ resumeSettled = "fulfilled")
         => UNCHANGED <<graphVars, startTime, timerVars>>]_vars

\* C2: right after stop() the engine is Idle and no tone source is started and
\* not stopped.
C2_StopLeavesNoLiveSource ==
    [][Stop => (~isPlaying' /\ LiveOscillators' = {})]_vars

\* C3: the handles of the session are held all together or released all
\* together, and they are all held while Running.
C3_HandlesAllOrNothing ==
    /\ \/ leftOscillator = NULL /\ rightOscillator = NULL /\ gainNode = NULL
       \/ leftOscillator # NULL /\ rightOscillator # NULL /\ gainNode # NULL
    /\ isPlaying => leftOscillator # NULL /\ rightOscillator # NULL /\ gainNode # NULL

\* C4: while Running every live left source is at carrier - beat/2, every live
\* right source at carrier + beat/2, and the master gain at volume/100.
C4_LiveSourcesFollowParameters ==
    isPlaying =>
       /\ \A i \in LiveOscillators \cap LeftSources :
             oscillators[i].frequency = leftFreq(carrierFreq, beatFreq)
       /\ \A i \in LiveOscillators \cap RightSources :
             oscillators[i].frequency = rightFreq(carrierFreq, beatFreq)
       /\ gains[gainNode] = gainValue(volume)

\* C5: a slider input while Running changes the frequencies and the gain of the
\* nodes the engine holds, in place: the running flag, the start time, the timer
\* and the handles stay, and no node is created.
C5_RetuneInPlace ==
    [][(isPlaying /\ Retune) =>
          /\ UNCHANGED <<isPlaying, startTime, timerInterval, intervals,
                         leftOscillator, rightOscillator, gainNode>>
          /\ Len(oscillators') = Len(oscillators)
          /\ Len(gains') = Len(gains)
          /\ oscillators'[leftOscillator].frequency = carrierFreq' - beatFreq' \div 2
          /\ oscillators'[rightOscillator].frequency = carrierFreq' + beatFreq' \div 2
          /\ gains'[gainNode] = volume'
          /\ \A i \in DOMAIN oscillators :
                /\ oscillators'[i].started = oscillators[i].started
                /\ oscillators'[i].stopped = oscillators[i].stopped
       ]_vars

\* C5 witness: Running, the carrier slider was just moved and both sources of
\* the session were retuned to it
C5_Witness ==
    /\ isPlaying
    /\ carrierFreq = Hz(10)
    /\ scheduled = {<<"osc", leftOscillator>>, <<"osc", rightOscillator>>}
    /\ oscillators[leftOscillator].frequency = Hz(10) - beatFreq \div 2
    /\ startTime # NULL

\* C6: while Idle no handler schedules a value change on an audio node.
C6_IdleRetuneSchedulesNothing == ~isPlaying => scheduled = {}

\* C7: with beat <= 2 * carrier the two sources of the session are at
\* frequencies whose sum is twice the carrier and whose difference is the beat.
C7_ChannelsSumAndDiffer ==
    (isPlaying /\ beatFreq <= 2 * carrierFreq) =>
       LET l == oscillators[leftOscillator].frequency
           r == oscillators[rightOscillator].frequency
       IN l + r = 2 * carrierFreq /\ r - l = beatFreq

\* C7 witness: Running with the left source at 0 Hz after a retune, the case
\* beat = 2 * carrier
C7_Witness ==
    /\ isPlaying
    /\ beatFreq = 2 * carrierFreq
    /\ oscillators[leftOscillator].frequency = 0
    /\ oscillators[rightOscillator].frequency = beatFreq
    /\ <<"osc", leftOscillator>> \in scheduled

\* C8: no tone source is ever given a frequency that is zero or negative.
C8_FrequenciesPositive ==
    \A i \in DOMAIN oscillators : ~oscillators[i].stopped => oscillators[i].frequency > 0

\* C9: every gain value scheduled by play() or updateVolume is within [0, 1].
C9_GainWithinUnit ==
    \A t \in scheduled : t[1] = "gain" => gains[t[2]] >= 0 /\ gains[t[2]] <= 100

\* the beat each band button is documented to select, in Hz
BandDefaultHz == [delta |-> 2, theta |-> 6, alpha |-> 10, beta |-> 20, gamma |-> 40]

\* C10: a band button sets the beat to the band's default and the carrier to
\* 400 Hz whatever they were, leaves the volume, and while Running leaves the
\* sources of the session at 400 -/+ default/2.
C10_BandSetsBeatAndCarrier ==
    [][\A band \in DOMAIN BandDefaultHz :
          SetFrequencyBand(band) =>
             /\ beatFreq' = Hz(BandDefaultHz[band])
             /\ carrierFreq' = Hz(400)
             /\ volume' = volume
             /\ isPlaying' = isPlaying
             /\ isPlaying =>
                   /\ 2 * oscillators'[leftOscillator].frequency
                         = 2 * Hz(400) - Hz(BandDefaultHz[band])
                   /\ 2 * oscillators'[rightOscillator].frequency
                         = 2 * Hz(400) + Hz(BandDefaultHz[band])
       ]_vars

\* C10 witness: Running at a carrier and a volume no band selects, the delta
\* button was clicked: the beat is 2 Hz, the carrier 400 Hz, the sources at 399
\* and 401 Hz
C10_Witness ==
    /\ isPlaying
    /\ beatFreq = Hz(2)
    /\ carrierFreq = Hz(400)
    /\ volume = 150
    /\ scheduled = {<<"osc", leftOscillator>>, <<"osc", rightOscillator>>}
    /\ oscillators[leftOscillator].frequency = Hz(399)
    /\ oscillators[rightOscillator].frequency = Hz(401)

\* the catalog as documented: carrier Hz, beat Hz, volume percent
PresetCatalogHz ==
    [meditation |-> <<400, 6, 40>>, focus |-> <<400, 10, 50>>,
     sleep |-> <<300, 2, 30>>, creativity |-> <<500, 25, 60>>]

PauseStep == (isPlaying /\ TogglePlayback) \/ Stop

\* a step in which play() builds a graph
BuildStep == Len(gains') > Len(gains)

\* C12: pause() leaves carrier, beat and volume as they are, and every start
\* builds a new graph: two new sources at carrier -/+ beat/2 and a new master
\* gain at volume/100, for the slider values at the time of the build.
C12_PauseKeepsParametersStartUsesThem ==
    [][/\ PauseStep => UNCHANGED paramVars
       /\ BuildStep =>
             /\ UNCHANGED paramVars
             /\ Len(oscillators') = Len(oscillators) + 2
             /\ Len(gains') = Len(gains) + 1
             /\ leftOscillator' = Len(oscillators) + 1
             /\ rightOscillator' = Len(oscillators) + 2
             /\ gainNode' = Len(gains) + 1
             /\ 2 * oscillators'[leftOscillator'].frequency = 2 * carrierFreq - beatFreq
             /\ 2 * oscillators'[rightOscillator'].frequency = 2 * carrierFreq + beatFreq
             /\ gains'[gainNode'] = volume
             /\ \A i \in {leftOscillator', rightOscillator'} :
                   oscillators'[i].started /\ ~oscillators'[i].stopped
       ]_vars

\* C12 witness: a second session was just started after the first was paused,
\* with slider values no page load and no preset gives; its graph has them
C12_Witness ==
    /\ isPlaying
    /\ Len(gains) = 2
    /\ oscillators[1].stopped /\ oscillators[2].stopped
    /\ scheduled = {<<"osc", 3>>, <<"osc", 4>>, <<"gain", 2>>}
    /\ carrierFreq = Hz(10) /\ beatFreq = Hz(40) /\ volume = 150
    /\ oscillators[3].frequency = Hz(10) - Hz(20)
    /\ oscillators[4].frequency = Hz(10) + Hz(20)
    /\ gains[2] = 150

\* the readout "00:0s" of an elapsed time of s < 10 seconds
Readout(s) == <<"0", "0", ":", "0", DigitChars[s + 1]>>

\* C13: while Running the ticks bring the readout to the engine-clock time
\* elapsed since the captured start time, whatever the start time was, 0
\* included; stop() leaves the readout at "00:00", and it stays there while Idle.
C13_TickShowsElapsed ==
    /\ \A e \in 0..MaxClock :
          (isPlaying /\ startTime # NULL /\ currentTime - startTime = e)
             ~> (\/ ~isPlaying
                 \/ currentTime - startTime # e
                 \/ timerText = Readout(e))
    /\ [][Stop => timerText' = ZeroReadout]_vars
    /\ [][(~isPlaying /\ startTime = NULL /\ ~isPlaying') => timerText' = timerText]_vars

\* C14: when a context suspended under a Running session is resumed, the
\* parameters, the handles and the running flag stay as they are; when the
\* resume is rejected the engine goes Idle.
C14_ResumeKeepsSessionFailureGoesIdle ==
    [][/\ (isPlaying /\ ForegroundResumeSettled /\ contexts'[audioContext] = "running")
          => UNCHANGED <<paramVars, leftOscillator, rightOscillator, gainNode, isPlaying>>
       /\ (isPlaying /\ ForegroundResumeSettled /\ contexts'[audioContext] = "suspended")
          => ~isPlaying'
       ]_vars

\* a play() that finds no audio context
PlayWithoutContext == ~isPlaying /\ audioContext = NULL /\ TogglePlayback

\* a play() that continues after its resume() was rejected
PlayAfterRejection == PlayResumed /\ resumeSettled = "rejected"

\* C15: a play() without an audio context, or whose awaited resume() is
\* rejected, shows an error and leaves the engine Idle: no node, no interval, no
\* wake-lock request, no start time.
C15_FailedStartStaysIdle ==
    [][(PlayWithoutContext \/ PlayAfterRejection) =>
          /\ shownErrors' # {}
          /\ ~isPlaying /\ ~isPlaying'
          /\ UNCHANGED <<graphVars, timerVars, lockVars, startTime>>
       ]_vars

\* C15 witness: the resume() of a suspended context was rejected and the last
\* of two waiting play() calls has shown its error; nothing was ever built
C15_Witness ==
    /\ shownErrors = {"play-failed"}
    /\ audioContext # NULL
    /\ contexts[audioContext] = "suspended"
    /\ pendingPlays = 0
    /\ resumeSettled = "no"
    /\ ~isPlaying
    /\ oscillators = <<>> /\ gains = <<>>
    /\ intervals = {} /\ lockRequests = 0 /\ startTime = NULL

\* a step in which the build of play() fails
BuildFails == BuildStep /\ ~hasStereoPanner

\* C16: when the build of play() fails the engine is Idle with the partial
\* graph released: no handle is retained and no node of that build is started.
C16_FailedBuildRollsBack ==
    [][BuildFails =>
          /\ ~isPlaying'
          /\ leftOscillator' = NULL /\ rightOscillator' = NULL /\ gainNode' = NULL
          /\ \A i \in DOMAIN oscillators' \ DOMAIN oscillators : ~oscillators'[i].started
       ]_vars

\* C17: stop() while Idle (and pause() inside it) changes nothing of the running
\* flag, the parameters, the handles, the interval and the wake lock, and shows
\* no error of its own (the click may still reach the document's listener, whose
\* error is not stop()'s).
C17_StopWhileIdleIsNoOp ==
    [][(~isPlaying /\ Stop) =>
          /\ UNCHANGED <<isPlaying, paramVars, leftOscillator, rightOscillator, gainNode,
                         timerInterval, intervals, wakeLock, locks, lockRequests>>
          /\ shownErrors' \subseteq {"create-failed"}
       ]_vars

\* C20: while Idle with no play() waiting and no wake-lock request pending,
\* no sentinel granted to the engine is held.
C20_NoLockHeldWhileIdle ==
    (~isPlaying /\ pendingPlays = 0 /\ lockRequests = 0) =>
       /\ wakeLock = NULL
       /\ \A i \in DOMAIN locks : locks[i] # "held"

\* the transition from Running to Idle: the sources of the session are stopped
\* and their handles cleared, its interval is cleared, its wake lock released
RunningToIdle ==
    /\ ~isPlaying'
    /\ leftOscillator' = NULL /\ rightOscillator' = NULL
    /\ oscillators'[leftOscillator].stopped /\ oscillators'[rightOscillator].stopped
    /\ timerInterval' = NULL /\ timerInterval \notin intervals'
    /\ wakeLock' = NULL
    /\ wakeLock # NULL => locks'[wakeLock] = "released"
    /\ UNCHANGED <<paramVars, gainNode, gains, lockRequests>>

\* C18: pause() and stop() while Running are the same transition to Idle, but
\* pause() leaves the start time and the readout and stop() sets them to null
\* and "00:00".
C18_StopIsPausePlusReset ==
    [][/\ (isPlaying /\ TogglePlayback) =>
             RunningToIdle /\ UNCHANGED <<startTime, timerText>>
       /\ (isPlaying /\ Stop) =>
             RunningToIdle /\ startTime' = NULL /\ timerText' = ZeroReadout
       ]_vars

\* C18 witness: a session that showed an elapsed time and held a wake lock was
\* paused: the readout and the start time are kept, the lock is released
C18_Witness ==
    /\ ~isPlaying
    /\ startTime # NULL
    /\ timerText # ZeroReadout
    /\ leftOscillator = NULL /\ rightOscillator = NULL
    /\ Len(oscillators) = 2 /\ oscillators[1].stopped /\ oscillators[2].stopped
    /\ timerInterval = NULL /\ intervals = {}
    /\ wakeLock = NULL /\ locks = <<"released">>

\* C19: exactly one interval is active while Running and none while Idle, and
\* no interval callback changes the readout while Idle.
C19_TimerOnlyWhileRunning ==
    /\ [](IF isPlaying THEN Cardinality(intervals) = 1 ELSE intervals = {})
    /\ [][(~isPlaying /\ TimerTick) => timerText' = timerText]_vars

\* C21: the wake lock never touches playback.  A build of play() ends Running
\* with handles, interval and start time set and no error of its own, with or
\* without the capability; the settling of the request, granted or rejected,
\* shows no error and leaves the session as it is.
C21_WakeLockIsBestEffort ==
    [][/\ BuildStep =>
             /\ isPlaying'
             /\ leftOscillator' # NULL /\ rightOscillator' # NULL /\ gainNode' # NULL
             /\ timerInterval' \in intervals'
             /\ startTime' = currentTime
             /\ shownErrors' \subseteq {"create-failed"}
       /\ WakeLockSettled =>
             /\ shownErrors' = {}
             /\ UNCHANGED <<isPlaying, graphVars, timerVars, startTime>>
       ]_vars

\* C21 witness: Running after the only wake-lock request was rejected
C21_Witness ==
    /\ isPlaying
    /\ hasWakeLock
    /\ Len(gains) = 1
    /\ lockRequests = 0 /\ locks = <<>> /\ wakeLock = NULL
    /\ Live(leftOscillator) /\ Live(rightOscillator)
    /\ timerInterval \in intervals
    /\ startTime # NULL
    /\ shownErrors = {}

\* a togglePlayback() from Idle completes with a context that runs: at once, or
\* when the awaited resume() is fulfilled
CompletedStart ==
    \/ ~isPlaying /\ TogglePlayback /\ audioContext # NULL /\ ~Suspended(audioContext)
    \/ PlayResumed /\ resumeSettled = "fulfilled"

\* C22: a toggle from Running is pause() and ends Idle, a toggle from Idle with
\* an available context ends Running when it completes, and neither writes a
\* parameter; so a toggle issued after the one before it has completed undoes
\* that one's change of the running flag.
C22_ToggleFollowsRunningFlag ==
    [][/\ (isPlaying /\ TogglePlayback) =>
             /\ ~isPlaying'
             /\ leftOscillator' = NULL /\ rightOscillator' = NULL
             /\ UNCHANGED paramVars
       /\ CompletedStart =>
             /\ isPlaying'
             /\ \A h \in {leftOscillator', rightOscillator'} :
                   oscillators'[h].started /\ ~oscillators'[h].stopped
             /\ UNCHANGED paramVars
       ]_vars

\* C22 witness: Idle again after a toggle started a session and a second toggle
\* paused it (the start time is kept, so it was not stop()), at slider values
\* set in between
C22_Witness ==
    /\ ~isPlaying
    /\ Len(gains) = 1
    /\ oscillators[1].stopped /\ oscillators[2].stopped
    /\ leftOscillator = NULL /\ rightOscillator = NULL
    /\ startTime # NULL
    /\ pendingPlays = 0
    /\ volume = 150

\* C23: on a page that keeps coming to the foreground, a context suspended
\* under a Running session gets a resume() whatever the background-mode setting
\* is, and once that resume() is settled the engine is Idle or the context runs.
C23_ForegroundResumesAndReconciles ==
    /\ (isPlaying /\ contexts[audioContext] = "suspended")
          ~> (~isPlaying \/ contexts[audioContext] # "suspended")
    /\ (isPlaying /\ contexts[audioContext] = "resuming")
          ~> (~isPlaying \/ contexts[audioContext] = "running")

\* C24: the page going to the background leaves the running flag, the
\* parameters, the handles, the interval and the start time, and adds a warning
\* exactly when the engine is Running, background mode is on and the platform is
\* iOS.
C24_BackgroundOnlyWarns ==
    [][PageHidden =>
          /\ UNCHANGED <<isPlaying, paramVars, graphVars, timerVars, startTime>>
          /\ iosWarnings' = IF isPlaying /\ backgroundMode /\ isIOS
                            THEN iosWarnings + 1 ELSE iosWarnings
       ]_vars

\* C24 witness: on iOS a warning is in the document over a Running session with
\* background mode on
C24_Witness ==
    /\ isIOS
    /\ isPlaying
    /\ backgroundMode
    /\ iosWarnings = 1
    /\ Live(leftOscillator)
    /\ timerInterval \in intervals

\* C25: tone sources are single-use.  A build creates two new sources and
\* stores them in the handles; a source is started only in the build that
\* creates it (in every build that runs to its end), is never started or live
\* again once stopped, and a handle never names a stopped source.
C25_SourcesAreSingleUse ==
    /\ [](\A h \in {leftOscillator, rightOscillator} \ {NULL} : ~oscillators[h].stopped)
    /\ [](hasStereoPanner => \A i \in DOMAIN oscillators : oscillators[i].started)
    /\ [][/\ \A i \in DOMAIN oscillators :
                /\ oscillators'[i].started = oscillators[i].started
                /\ oscillators[i].stopped => oscillators'[i].stopped
          /\ BuildStep =>
                /\ Len(oscillators') = Len(oscillators) + 2
                /\ leftOscillator' = Len(oscillators) + 1
                /\ rightOscillator' = Len(oscillators) + 2
                /\ \A i \in {leftOscillator', rightOscillator'} :
                      ~oscillators'[i].stopped
          /\ ~BuildStep => Len(oscillators') = Len(oscillators)
          /\ (PauseStep /\ ~pauseThrows) =>
                \A h \in {leftOscillator, rightOscillator} \ {NULL} :
                   ~oscillators[h].stopped /\ oscillators'[h].stopped
         ]_vars

\* C25 witness: a second session runs on a new pair while the pair of the first
\* session is stopped
C25_Witness ==
    /\ isPlaying
    /\ Len(oscillators) = 4
    /\ oscillators[1].stopped /\ oscillators[2].stopped
    /\ leftOscillator = 3 /\ rightOscillator = 4
    /\ Live(3) /\ Live(4)

DigitValue(ch) == CHOOSE d \in 0..9 : DigitChars[d + 1] = ch

\* the number a sequence of digit characters reads as
RECURSIVE ReadNumber(_)
ReadNumber(str) ==
    IF str = <<>> THEN 0
    ELSE 10 * ReadNumber(SubSeq(str, 1, Len(str) - 1)) + DigitValue(str[Len(str)])

\* str is made of digit characters only
IsDigits(str) == \A k \in DOMAIN str : \E d \in 0..9 : DigitChars[d + 1] = str[k]

\* C27: the readout of e elapsed seconds is the minutes e div 60, a colon and
\* the seconds e mod 60: the seconds in two digits, the minutes in two digits
\* or, from 100 minutes on, in as many as they have, never wrapped.
C27_ReadoutIsMinutesAndSeconds ==
    [][TimerTick =>
          LET e == currentTime - startTime
              r == timerText'
              m == SubSeq(r, 1, Len(r) - 3)
              sec == SubSeq(r, Len(r) - 1, Len(r))
          IN /\ Len(r) >= 5
             /\ r[Len(r) - 2] = ":"
             /\ IsDigits(m) /\ IsDigits(sec)
             /\ ReadNumber(m) = e \div 60
             /\ ReadNumber(sec) = e % 60
             /\ ReadNumber(sec) \in 0..59
             /\ Len(m) = IF e \div 60 < 100 THEN 2 ELSE 3
       ]_vars

\* C27 witness: 6000 elapsed seconds are shown as 100:00
C27_Witness ==
    /\ currentTime - startTime = 6000
    /\ timerText = <<"1", "0", "0", ":", "0", "0">>

\* C28: an interval callback of the timer and an animation frame of the waveform
\* canvas leave the running flag, the slider values, the start time, the graph
\* handles, the node values, the timer task, the context and the wake lock as
\* they were; the callback writes the readout only, the frame the status text only.
C28_PeriodicCallbacksOnlyPaint ==
    [][/\ (TimerTick \/ drawWaveform) =>
             UNCHANGED <<isPlaying, paramVars, startTime, graphVars, wakeLock, locks,
                         lockRequests, timerInterval, intervals, audioContext,
                         contexts, currentTime>>
       /\ TimerTick => UNCHANGED waveformStatus
       /\ drawWaveform => UNCHANGED timerText
       ]_vars

\* C28 witness: a Running session one second old whose callback has written
\* the readout and whose frame has painted the status, holding its wake lock
C28_Witness ==
    /\ isPlaying
    /\ Live(leftOscillator) /\ Live(rightOscillator)
    /\ wakeLock # NULL
    /\ startTime = 1
    /\ timerText = Readout(1)
    /\ waveformStatus = "Playing"

\* this.wakeLock is a sentinel the platform has revoked
HoldsRevokedLock == wakeLock # NULL /\ locks[wakeLock] = "released"

\* C29: the revocation of a held wake lock shows no error, changes nothing of
\* the session and requests nothing; a wake lock is requested only in a step
\* in which play() builds a graph; and pause() or stop() of a Running session
\* whose wake lock was revoked shows no error and ends Idle without the lock.
C29_RevokedLockIsTolerated ==
    [][/\ WakeLockRevoked =>
             /\ shownErrors' = {}
             /\ UNCHANGED <<isPlaying, graphVars, timerVars, startTime, paramVars,
                            wakeLock, lockRequests, audioContext, contexts>>
       /\ lockRequests' > lockRequests => BuildStep
       /\ (isPlaying /\ HoldsRevokedLock /\ PauseStep) =>
             /\ shownErrors' = {}
             /\ ~isPlaying'
             /\ leftOscillator' = NULL /\ rightOscillator' = NULL
             /\ timerInterval' = NULL
             /\ wakeLock' = NULL
             /\ locks' = locks
             /\ lockRequests' = lockRequests
       ]_vars

\* C29 witness: a Running session whose only wake lock was revoked, with no
\* request in flight
C29_Witness ==
    /\ isPlaying
    /\ HoldsRevokedLock
    /\ Len(locks) = 1
    /\ lockRequests = 0
    /\ Live(leftOscillator) /\ Live(rightOscillator)

\* a play() that ends in showError
FailedStart == PlayWithoutContext \/ PlayAfterRejection \/ BuildFails

\* a wake-lock request that is rejected
WakeLockFails == WakeLockSettled /\ locks' = locks

\* the engine is Idle: not playing, no handle of a source, no interval
WellDefinedIdle ==
    /\ ~isPlaying
    /\ leftOscillator = NULL /\ rightOscillator = NULL
    /\ timerInterval = NULL

\* the engine is Running: playing, both handles on live sources, its interval set
WellDefinedRunning ==
    /\ isPlaying
    /\ leftOscillator # NULL /\ rightOscillator # NULL
    /\ Live(leftOscillator) /\ Live(rightOscillator)
    /\ timerInterval \in intervals

\* a start() on its own from a silent Idle engine, with a context that runs
\* and a platform that can build the graph
SoleStart ==
    /\ CompletedStart
    /\ hasStereoPanner
    /\ LiveOscillators = {} /\ intervals = {}
    /\ pendingPlays = IF PlayResumed THEN 1 ELSE 0

\* C30: a start that fails leaves the engine Idle, a wake-lock request that
\* fails leaves it Idle or Running as it was, and a start() on its own from a
\* silent Idle engine ends Running with one live pair of sources at carrier
\* -/+ beat/2 and one interval.
C30_FailuresLeaveARetryableState ==
    [][/\ FailedStart => WellDefinedIdle'
       /\ WakeLockFails =>
             /\ UNCHANGED <<isPlaying, graphVars, timerVars, startTime>>
             /\ (WellDefinedIdle \/ WellDefinedRunning) =>
                   (WellDefinedIdle' \/ WellDefinedRunning')
       /\ SoleStart =>
             /\ WellDefinedRunning'
             /\ LiveOscillators' = {leftOscillator', rightOscillator'}
             /\ leftOscillator' # rightOscillator'
             /\ intervals' = {timerInterval'}
             /\ oscillators'[leftOscillator'].frequency = leftFreq(carrierFreq, beatFreq)
             /\ oscillators'[rightOscillator'].frequency = rightFreq(carrierFreq, beatFreq)
       ]_vars

\* C31: starts that overlap across the awaited resume() build one graph only:
\* at most one pair of sources is started and not stopped, at most one interval
\* is active, and every live source is one the handles reference.
C31_OverlappingStartsBuildOnce ==
    /\ Cardinality(LiveOscillators) <= 2
    /\ Cardinality(intervals) <= 1
    /\ LiveOscillators \subseteq {leftOscillator, rightOscillator}

\* the state in which a play() waits at its await and stop() has just returned
PendingStartStopped ==
    /\ ~isPlaying /\ pendingPlays = 1 /\ resumeSettled = "no"
    /\ audioContext # NULL /\ Suspended(audioContext)
    /\ oscillators = <<>> /\ gains = <<>>
    /\ startTime = NULL /\ timerText = ZeroReadout
    /\ intervals = {} /\ locks = <<>> /\ lockRequests = 0
    /\ ~promptShown /\ ~docListener /\ shownErrors = {}

\* C32: after a stop() issued while a start waits for resume(), with no start
\* requested afterwards, the engine is never Running and no oscillator is
\* ever started.
C32_StopCancelsPendingStart ==
    /\ ~isPlaying
    /\ \A i \in DOMAIN oscillators : ~oscillators[i].started

\* C33: when the last pending auto-play timeout of the quick-preset clicks
\* fires with a running context, the engine ends Running, at the slider values
\* the last click left, with its sources at carrier -/+ beat/2.
C33_QuickPresetLeadsToRunning ==
    [][(AutoPlayFires /\ autoPlays = 1 /\ audioContext # NULL
          /\ ~Suspended(audioContext)) =>
          /\ isPlaying'
          /\ UNCHANGED paramVars
          /\ oscillators'[leftOscillator'].frequency = leftFreq(carrierFreq, beatFreq)
          /\ oscillators'[rightOscillator'].frequency = rightFreq(carrierFreq, beatFreq)
       ]_vars

\* C34: at most one audio context is ever created, and the "Failed to create
\* audio context" error is shown only by a handler that created none.
C34_OneContextErrorOnlyWithoutOne ==
    /\ [](Len(contexts) <= 1)
    /\ [][("create-failed" \in shownErrors') =>
             (contexts' = contexts /\ audioContext' = audioContext)]_vars

\* C35: while Running an audio context exists, the two source handles and the
\* master gain handle are set and a start time is captured; and the running
\* flag becomes true only in a step that leaves both sources started.
C35_RunningHasContextHandlesStart ==
    /\ [](isPlaying =>
             /\ audioContext # NULL
             /\ leftOscillator # NULL /\ rightOscillator # NULL /\ gainNode # NULL
             /\ startTime # NULL)
    /\ [][(~isPlaying /\ isPlaying') =>
             /\ leftOscillator' # NULL /\ rightOscillator' # NULL
             /\ oscillators'[leftOscillator'].started
             /\ oscillators'[rightOscillator'].started]_vars

\* C35 witness: the second session is Running on its own sources and gain, the
\* first one paused
C35_Witness ==
    /\ isPlaying
    /\ audioContext # NULL
    /\ leftOscillator = 3 /\ rightOscillator = 4 /\ gainNode = 2
    /\ Live(3) /\ Live(4)
    /\ oscillators[1].stopped /\ oscillators[2].stopped
    /\ startTime # NULL

\* the sentinels granted to the engine that are not released
HeldLocks == {i \in DOMAIN locks : locks[i] = "held"}

\* C36: at most one sentinel granted to the engine is held at a time, and
\* this.wakeLock is never moved off a sentinel that is still held.
C36_AtMostOneHeldLock ==
    /\ [](Cardinality(HeldLocks) <= 1)
    /\ [][(wakeLock # NULL /\ wakeLock' # wakeLock) =>
             locks'[wakeLock] = "released"]_vars

\* C37: the resume retry of the statechange listener never changes the
\* running flag, and it calls resume() only when the context is still
\* suspended and the engine is still Running as it fires.
C37_RetryResumesOnlyWhileRunning ==
    [][ResumeRetryFires =>
          /\ UNCHANGED isPlaying
          /\ contexts' # contexts => (isPlaying /\ Suspended(audioContext))
       ]_vars

====
